---- MODULE Spec2Model ----
(***************************************************************************)
(* Model of the tic-tac-toe engine of MenuInterativo (class JogoDaVelha,   *)
(* src/script.js 1579-1796) together with the two pieces of the page that  *)
(* drive it: the timer queue holding the opponent's deferred callbacks and *)
(* the content area in which the board is rendered; and of the history of *)
(* the calculator (class Calculator, src/script.js 1994-2289) together     *)
(* with the localStorage entry 'calcHistory' it is persisted in.           *)
(*                                                                         *)
(* JavaScript values: the empty cell '' is "", the marks are "X" and "O",  *)
(* a null mark is the string "null", a null cell index is NoMove.          *)
(***************************************************************************)
EXTENDS Integers, Sequences, FiniteSets

VARIABLES
    gameBoard,      \* this.gameBoard: the 9 cells
    currentPlayer,  \* this.currentPlayer
    gameActive,     \* this.gameActive
    timers,         \* number of setTimeout(makeComputerMove) callbacks not yet run
    boardShown,     \* the .grid and .status elements are in the document
    status,         \* textContent of the .status element ("" when it has none)
    handler,        \* name of the handler that ran last ("none" before the first)
    outcome,        \* what it did: "placed" a mark and completed, "ignored" the
                    \* call, "threw" an uncaught exception, or "done"
    bestMoveIndex,  \* index returned to a direct caller of getBestMove
    winner,         \* mark returned to a direct caller of checkWinner
    history,        \* this.history of the Calculator
    calcHistory,    \* the localStorage entry under the key 'calcHistory'
    storage,        \* whether localStorage can be read and written
    calcShown,      \* the '.calc-history ul' element is in the document
    calcOp,         \* name of the Calculator operation that ran last
    raised,         \* it raised an exception to its caller
    returned,       \* value the last calculate returned (NoResult if none)
    foreign,        \* 'calcHistory' was first found holding a value
    clock,          \* the instant new Date() gives next
    keydownListeners, \* keydown listeners the Calculator has put on document
    sinceEmpty,     \* entries appended since the history was last empty
    userInput,      \* a string the user typed into a field of the page
    markup,         \* the HTML text generated last, as its segments
    queue,          \* Notifications.queue, each notification by its number
    isDisplaying,   \* Notifications.isDisplaying
    onScreen,       \* the notification elements attached to document.body
    wait5000,       \* notifications whose 5000 ms timer is pending, oldest first
    wait300,        \* notifications whose 300 ms timer is pending, oldest first
    displayed,      \* the notifications displayNext put on screen, in order
    nextId,         \* the number the next call of show gives its notification
    palavraSecreta, \* Forca.palavraSecreta, as its sequence of letters
    letrasErradas,  \* Forca.letrasErradas
    letrasCorretas, \* Forca.letrasCorretas
    erros,          \* Forca.erros
    forcaShown,     \* the hangman screen is in the content area
    forcaEnabled,   \* its input and its button are enabled
    tasks,          \* ListaDeTarefas.tasks
    storedTasks,    \* the localStorage entry under the key 'tasks'
    tasksStorage,   \* whether localStorage accepts a write of 'tasks'
    todoShown,      \* the to-do screen is in the content area
    todoRaised      \* the last operation of the list ended in an exception

gameVars == <<gameBoard, currentPlayer, gameActive, timers, boardShown, status,
              handler, outcome, bestMoveIndex, winner>>

calcVars == <<history, calcHistory, storage, calcShown, calcOp, raised,
              returned, foreign, clock, keydownListeners, sinceEmpty>>

htmlVars == <<userInput, markup>>

\* What the operations of the game, of the calculator and of the HTML
\* templates, respectively, leave alone.
notifVars == <<queue, isDisplaying, onScreen, wait5000, wait300, displayed, nextId>>

forcaVars == <<palavraSecreta, letrasErradas, letrasCorretas, erros, forcaShown,
               forcaEnabled>>

todoVars == <<tasks, storedTasks, tasksStorage, todoShown, todoRaised>>

nonGameVars == <<calcVars, htmlVars, notifVars, forcaVars, todoVars>>
nonCalcVars == <<gameVars, htmlVars, notifVars, forcaVars, todoVars>>
nonHtmlVars == <<gameVars, calcVars, notifVars, forcaVars, todoVars>>
nonNotifVars == <<gameVars, calcVars, htmlVars, forcaVars, todoVars>>
nonForcaVars == <<gameVars, calcVars, htmlVars, notifVars, todoVars>>
nonTodoVars == <<gameVars, calcVars, htmlVars, notifVars, forcaVars>>

vars == <<gameVars, calcVars, htmlVars, notifVars, forcaVars, todoVars>>

\* Largest number of opponent callbacks that may be pending at once.
MaxTimers == 2

Cells == 0 .. 8
Marks == {"X", "O"}
Boards == [Cells -> {"", "X", "O"}]

\* getBestMove's `return null`
NoMove == -1

emptyBoard == [i \in Cells |-> ""]

-----------------------------------------------------------------------------
(* Pure helpers of the class                                               *)

\* A table whose last diagonal is mistyped.
winPatterns_mistypedDiagonal ==
    << <<0, 1, 2>>, <<3, 4, 5>>, <<6, 7, 8>>,
       <<0, 3, 6>>, <<1, 4, 7>>, <<2, 5, 8>>,
       <<0, 4, 8>>, <<2, 4, 8>> >>

winPatterns ==
    << <<0, 1, 2>>, <<3, 4, 5>>, <<6, 7, 8>>,
       <<0, 3, 6>>, <<1, 4, 7>>, <<2, 5, 8>>,
       <<0, 4, 8>>, <<2, 4, 6>> >>

\* The for-loop of checkWinner from pattern number k on: the mark of the
\* first pattern whose three cells hold the same non-empty mark.
RECURSIVE checkWinnerFrom(_, _)
checkWinnerFrom(b, k) ==
    IF k > Len(winPatterns) THEN "null"
    ELSE LET p == winPatterns[k] IN
         IF b[p[1]] # "" /\ b[p[1]] = b[p[2]] /\ b[p[1]] = b[p[3]]
         THEN b[p[1]]
         ELSE checkWinnerFrom(b, k + 1)

\* The loop started one pattern too late.
checkWinner_skipsFirst(b) == checkWinnerFrom(b, 2)

checkWinner(b) == checkWinnerFrom(b, 1)

isBoardFull(b) == \A i \in Cells : b[i] # ""

togglePlayer(p) == IF p = "X" THEN "O" ELSE "X"

\* A priority list that starts with the corners.
strategicMoves_cornersFirst == <<0, 2, 6, 8, 4, 1, 3, 5, 7>>

strategicMoves == <<4, 0, 2, 6, 8, 1, 3, 5, 7>>

\* Tier 1 of getBestMove, scanning from cell i: write 'O', test, undo.
\* The board is threaded through the writes, so the result carries the
\* board as the loop leaves it.
RECURSIVE tryToWin(_, _)
tryToWin(b, i) ==
    IF i > 8 THEN [index |-> NoMove, board |-> b]
    ELSE IF b[i] = ""
         THEN LET sim == [b EXCEPT ![i] = "O"] IN
              IF checkWinner(sim) = "O"
              THEN [index |-> i, board |-> [sim EXCEPT ![i] = ""]]
              ELSE tryToWin([sim EXCEPT ![i] = ""], i + 1)
         ELSE tryToWin(b, i + 1)

\* Tier 2 of getBestMove, scanning from cell i: write 'X', test, undo.
RECURSIVE tryToBlock(_, _)
tryToBlock(b, i) ==
    IF i > 8 THEN [index |-> NoMove, board |-> b]
    ELSE IF b[i] = ""
         THEN LET sim == [b EXCEPT ![i] = "X"] IN
              IF checkWinner(sim) = "X"
              THEN [index |-> i, board |-> [sim EXCEPT ![i] = ""]]
              ELSE tryToBlock([sim EXCEPT ![i] = ""], i + 1)
         ELSE tryToBlock(b, i + 1)

\* Tier 3 of getBestMove from position k of strategicMoves; NoMove is the
\* fallback `return null`.
RECURSIVE strategicMove(_, _)
strategicMove(b, k) ==
    IF k > Len(strategicMoves) THEN NoMove
    ELSE IF b[strategicMoves[k]] = "" THEN strategicMoves[k]
         ELSE strategicMove(b, k + 1)

\* getBestMove with the blocking tier tried before the winning tier.
getBestMove_blockFirst(b) ==
    LET k == tryToBlock(b, 0) IN
    IF k.index # NoMove THEN k
    ELSE LET w == tryToWin(k.board, 0) IN
         IF w.index # NoMove THEN w
         ELSE [index |-> strategicMove(w.board, 1), board |-> w.board]

\* getBestMove without the blocking tier.
getBestMove_noBlock(b) ==
    LET w == tryToWin(b, 0) IN
    IF w.index # NoMove THEN w
    ELSE [index |-> strategicMove(w.board, 1), board |-> w.board]

\* getBestMove: the returned index and this.gameBoard on return.
getBestMove(b) ==
    LET w == tryToWin(b, 0) IN
    IF w.index # NoMove THEN w
    ELSE LET k == tryToBlock(w.board, 0) IN
         IF k.index # NoMove THEN k
         ELSE [index |-> strategicMove(k.board, 1), board |-> k.board]

\* makeComputerMove's write of the chosen mark (none when there is no move).
placeBestMove(g) ==
    IF g.index = NoMove THEN g.board ELSE [g.board EXCEPT ![g.index] = "O"]

-----------------------------------------------------------------------------
(* The other variants of the class: the one of part_001, whose getBestMove *)
(* returns from the blocking tier without undoing its simulated 'X', and   *)
(* the earlier class of script.js (255-370), whose checkWinner answers     *)
(* true or false and whose opponent takes a random empty cell.             *)

\* A blocking tier that undoes none of its simulated marks.
RECURSIVE part001_tryToBlock_neverUndoes(_, _)
part001_tryToBlock_neverUndoes(b, i) ==
    IF i > 8 THEN [index |-> NoMove, board |-> b]
    ELSE IF b[i] = ""
         THEN LET sim == [b EXCEPT ![i] = "X"] IN
              IF checkWinner(sim) = "X"
              THEN [index |-> i, board |-> sim]
              ELSE part001_tryToBlock_neverUndoes(sim, i + 1)
         ELSE part001_tryToBlock_neverUndoes(b, i + 1)

\* Tier 2 of part_001's getBestMove: the undo before `return i` is lost in
\* the comment of the line above it.
RECURSIVE part001_tryToBlock(_, _)
part001_tryToBlock(b, i) ==
    IF i > 8 THEN [index |-> NoMove, board |-> b]
    ELSE IF b[i] = ""
         THEN LET sim == [b EXCEPT ![i] = "X"] IN
              IF checkWinner(sim) = "X"
              THEN [index |-> i, board |-> sim]
              ELSE part001_tryToBlock([sim EXCEPT ![i] = ""], i + 1)
         ELSE part001_tryToBlock(b, i + 1)

\* part_001's getBestMove; its other tiers are those of the later class.
part001_getBestMove(b) ==
    LET w == tryToWin(b, 0) IN
    IF w.index # NoMove THEN w
    ELSE LET k == part001_tryToBlock(w.board, 0) IN
         IF k.index # NoMove THEN k
         ELSE [index |-> strategicMove(k.board, 1), board |-> k.board]

\* The earlier class's checkWinner: true on a complete line, else whether
\* the board is full.
earlier_checkWinner(b) ==
    \/ \E k \in 1 .. Len(winPatterns) :
          LET p == winPatterns[k] IN
          b[p[1]] # "" /\ b[p[1]] = b[p[2]] /\ b[p[1]] = b[p[3]]
    \/ \A i \in Cells : b[i] # ""

\* The cells the earlier class's makeComputerMove can take: emptyCells.
earlier_emptyCells(b) == {i \in Cells : b[i] = ""}

-----------------------------------------------------------------------------
(* updateStatus: the engine fields and the status text it leaves.          *)

\* updateStatus testing for the full board before testing for a winner.
updateStatus_drawFirst(b, p, active, text) ==
    IF ~active THEN [gameActive |-> active, status |-> text]
    ELSE IF isBoardFull(b)
         THEN [gameActive |-> FALSE, status |-> "Empate"]
         ELSE IF checkWinner(b) # "null"
              THEN [gameActive |-> FALSE, status |-> checkWinner(b) \o " venceu"]
              ELSE [gameActive |-> TRUE, status |-> "Vez " \o p]

updateStatus(b, p, active, text) ==
    IF ~active THEN [gameActive |-> active, status |-> text]
    ELSE IF checkWinner(b) # "null"
         THEN [gameActive |-> FALSE, status |-> checkWinner(b) \o " venceu"]
         ELSE IF isBoardFull(b)
              THEN [gameActive |-> FALSE, status |-> "Empate"]
              ELSE [gameActive |-> TRUE, status |-> "Vez " \o p]

\* What handleClick and makeComputerMove both do once the mark is written
\* and rendered (b is the board holding the new mark): the win check, the
\* draw check, then togglePlayer and updateStatus.  returned tells that one
\* of the two early returns was taken.
afterMark(b, p, active, text) ==
    IF checkWinner(b) # "null"
    THEN [currentPlayer |-> p, gameActive |-> FALSE,
          status |-> updateStatus(b, p, active, text).status, returned |-> TRUE]
    ELSE IF isBoardFull(b)
         THEN [currentPlayer |-> p, gameActive |-> FALSE,
               status |-> updateStatus(b, p, active, text).status, returned |-> TRUE]
         ELSE LET q == togglePlayer(p)
                  u == updateStatus(b, q, active, text)
              IN [currentPlayer |-> q, gameActive |-> u.gameActive,
                  status |-> u.status, returned |-> FALSE]

\* The acceptance test written with || in place of &&.
cellIsFree_either(b, index, active) == b[index] = "" \/ active

\* The acceptance test without the look at the cell.
cellIsFree_ignoresCell(b, index, active) == active

\* The condition under which handleClick accepts a click on cell index.
cellIsFree(b, index, active) == b[index] = "" /\ active

\* The guard without the look at gameActive.
computerMayMove_ignoresActive(active, p) == p = "O"

\* The condition under which makeComputerMove goes on to move.
computerMayMove(active, p) == ~(~active \/ p # "O")

TypeOK ==
    /\ gameBoard \in Boards
    /\ currentPlayer \in Marks
    /\ gameActive \in BOOLEAN
    /\ timers \in 0 .. MaxTimers
    /\ boardShown \in BOOLEAN
    /\ status \in {"", "Vez X", "Vez O", "X venceu", "O venceu", "Empate"}
    /\ handler \in {"none", "handleClick", "makeComputerMove", "reiniciarJogo",
                    "showJogoDaVelha", "voltarAoMenu", "getBestMove", "checkWinner"}
    /\ outcome \in {"placed", "ignored", "threw", "done"}
    /\ bestMoveIndex \in Cells \cup {NoMove}
    /\ winner \in Marks \cup {"null"}

-----------------------------------------------------------------------------
(* The calculator's history: JavaScript values and their JSON text          *)
(*                                                                         *)
(* A JavaScript value that can end up in this.history is a record          *)
(* [type, items]: an array with its elements, or a value of another type   *)
(* (null, a plain object), whose items are empty.  An element of an array  *)
(* is a record [type, expression, result, timestamp]: type "entry" for an  *)
(* object with the three properties, "other" for any element that lacks    *)
(* them ({} or a number), whose properties all read as undefined (written  *)
(* Undefined for the expression and 0 for the other two).  An instant is   *)
(* a number; toISOString is one to one, so a timestamp is that number. The *)
(* text of a value, as JSON.stringify writes it, is a record [type, items] *)
(* whose items are tuples <<type, expression, result, timestamp>>.         *)

\* The 10 of `this.history.slice(0, 10)`.
HistoryLimit == 10

\* Last instant at which a calculation is made.
MaxInstant == 12

\* Most keydown listeners on document between two loads of the page.
MaxListeners == 3

\* What calculate hands back when it throws instead of returning.
NoResult == -1

\* The value of a property that is not there.
Undefined == "undefined"

\* Texts the user can have in the display when pressing '='.
Expressions == {"200%", "1/0", "1+"}

\* expression.replace(/%/g, '/100')
replacePercent(expression) ==
    IF expression = "200%" THEN "200/100" ELSE expression

\* math.evaluate: the value, whether it is finite, or that it threw.
evaluate(expression) ==
    CASE expression = "2"       -> [threw |-> FALSE, finite |-> TRUE, value |-> 2]
      [] expression = "200/100" -> [threw |-> FALSE, finite |-> TRUE, value |-> 2]
      [] expression = "1/0"     -> [threw |-> FALSE, finite |-> FALSE, value |-> 0]
      [] OTHER                  -> [threw |-> TRUE, finite |-> FALSE, value |-> 0]

\* The object literal of addToHistory.
historyItem(expression, result, now) ==
    [type |-> "entry", expression |-> expression, result |-> result,
     timestamp |-> now]

\* An array element without the properties of an entry.
otherItem ==
    [type |-> "other", expression |-> Undefined, result |-> 0,
     timestamp |-> 0]

array(items) == [type |-> "array", items |-> items]

emptyArray == array(<<>>)

isArray(v) == v.type = "array"

\* Array.prototype.unshift: the new element goes to index 0.
unshift(items, item) == <<item>> \o items

\* Array.prototype.slice(0, end)
slice(items, end) ==
    SubSeq(items, 1, IF Len(items) < end THEN Len(items) ELSE end)

\* JSON.stringify of a value of the kinds above.
stringify(v) ==
    [type |-> v.type,
     items |-> [i \in 1 .. Len(v.items) |->
                   <<v.items[i].type, v.items[i].expression,
                     v.items[i].result, v.items[i].timestamp>>]]

\* JSON.parse of a text of the kinds above.
parse(text) ==
    [type |-> text.type,
     items |-> [i \in 1 .. Len(text.items) |->
                   [type |-> text.items[i][1], expression |-> text.items[i][2],
                    result |-> text.items[i][3], timestamp |-> text.items[i][4]]]]

noText == [type |-> "null", items |-> <<>>]

\* What localStorage holds under 'calcHistory': nothing (getItem gives null),
\* the empty string, a text JSON.parse rejects, or a JSON text.
absent == [kind |-> "absent", text |-> noText]
emptyString == [kind |-> "empty", text |-> noText]
unparsable == [kind |-> "unparsable", text |-> noText]
json(text) == [kind |-> "json", text |-> text]

\* Values 'calcHistory' can be found holding when the page is first loaded:
\* besides the above, the texts null, {}, [{}], an array of one entry and
\* an array of HistoryLimit + 1 entries, the entries made at instant 0.
oneEntry == historyItem("200/100", 2, 0)

FoundValues ==
    {absent, emptyString, unparsable,
     json([type |-> "null", items |-> <<>>]),
     json([type |-> "object", items |-> <<>>]),
     json(stringify(array(<<otherItem>>))),
     json(stringify(array(<<oneEntry>>))),
     json(stringify(array([i \in 1 .. HistoryLimit + 1 |-> oneEntry])))}

\* updateHistoryDisplay throws: the list element is there and this.history
\* has no map, or an element's expression is undefined.
updateHistoryDisplay(h, shown) ==
    shown /\ (~isArray(h) \/ \E i \in 1 .. Len(h.items) : h.items[i].expression = Undefined)

\* loadHistory: the history it leaves.
loadHistory(h, saved, store, shown) ==
    IF store = "denied" THEN h
    ELSE IF saved.kind \in {"absent", "empty"} THEN h
    ELSE IF saved.kind = "unparsable" THEN h
    ELSE parse(saved.text)

\* A save that writes the history of before the call.
saveHistory_stale(h, saved, store) == saved

\* saveHistory: the value under 'calcHistory' it leaves.
saveHistory(h, saved, store) ==
    IF store = "ok" THEN json(stringify(h)) ELSE saved

\* An append that puts the new entry at the end.
addToHistory_push(h, saved, store, shown, expression, result, now) ==
    IF ~isArray(h)
    THEN [history |-> h, calcHistory |-> saved, raised |-> TRUE]
    ELSE LET h2 == array(slice(h.items \o <<historyItem(expression, result, now)>>, HistoryLimit))
         IN [history |-> h2,
             calcHistory |-> saveHistory(h2, saved, store),
             raised |-> updateHistoryDisplay(h2, shown)]

\* An append that never truncates.
addToHistory_noSlice(h, saved, store, shown, expression, result, now) ==
    IF ~isArray(h)
    THEN [history |-> h, calcHistory |-> saved, raised |-> TRUE]
    ELSE LET h2 == array(unshift(h.items, historyItem(expression, result, now)))
         IN [history |-> h2,
             calcHistory |-> saveHistory(h2, saved, store),
             raised |-> updateHistoryDisplay(h2, shown)]

\* addToHistory: the history and the stored value it leaves, and whether it
\* raised (unshift on a value that is no array, or the display).
addToHistory(h, saved, store, shown, expression, result, now) ==
    IF ~isArray(h)
    THEN [history |-> h, calcHistory |-> saved, raised |-> TRUE]
    ELSE LET h1 == unshift(h.items, historyItem(expression, result, now))
             h2 == array(slice(h1, HistoryLimit))
         IN [history |-> h2,
             calcHistory |-> saveHistory(h2, saved, store),
             raised |-> updateHistoryDisplay(h2, shown)]

\* The fields of a Calculator and of the page around it right after
\* `new Calculator(...)` on a page whose storage is empty and working.
calcAtConstruction ==
    /\ history = emptyArray
    /\ calcHistory = absent
    /\ storage = "ok"
    /\ calcShown = FALSE
    /\ calcOp = "none"
    /\ raised = FALSE
    /\ returned = NoResult
    /\ foreign = FALSE
    /\ clock = 1
    /\ keydownListeners = 0
    /\ sinceEmpty = [valid |-> TRUE, calls |-> <<>>]

TypeOKCalc ==
    /\ history.type \in {"array", "null", "object"}
    /\ calcHistory.kind \in {"absent", "empty", "unparsable", "json"}
    /\ storage \in {"ok", "full", "denied"}
    /\ calcShown \in BOOLEAN
    /\ raised \in BOOLEAN
    /\ foreign \in BOOLEAN
    /\ clock \in 1 .. MaxInstant + 1
    /\ keydownListeners \in 0 .. MaxListeners

-----------------------------------------------------------------------------
(* Strings written into generated HTML                                     *)
(*                                                                         *)
(* A string is a sequence of characters.  A generated HTML text is a      *)
(* sequence of segments [user, text]: the literal parts of the template   *)
(* (user FALSE) and the values interpolated into it (user TRUE).          *)

\* Greatest length of a string typed by the user.
MaxLen == 2

\* The five characters sanitizeInput replaces, and one it does not.
Special == {"&", "<", ">", "\"", "'"}
Chars == Special \cup {"a"}

Strings == UNION {[1 .. n -> Chars] : n \in 0 .. MaxLen}

\* String.prototype.replace(/c/g, entity)
RECURSIVE replace(_, _, _)
replace(str, c, entity) ==
    IF str = <<>> THEN <<>>
    ELSE (IF Head(str) = c THEN entity ELSE <<Head(str)>>) \o replace(Tail(str), c, entity)

\* utils.sanitizeInput
sanitizeInput(input) ==
    replace(replace(replace(replace(replace(input,
        "&", <<"&", "a", "m", "p", ";">>),
        "<", <<"&", "l", "t", ";">>),
        ">", <<"&", "g", "t", ";">>),
        "\"", <<"&", "q", "u", "o", "t", ";">>),
        "'", <<"&", "#", "0", "3", "9", ";">>)

literal(name) == [user |-> FALSE, text |-> <<name>>]
interpolated(str) == [user |-> TRUE, text |-> str]

htmlAtStart ==
    /\ userInput = <<>>
    /\ markup = <<>>

-----------------------------------------------------------------------------
(* Notifications                                                           *)

\* Greatest number of calls of show in one run.
MaxNotifications == 4

\* Notifications.constructor
notifAtConstruction ==
    /\ queue = <<>>
    /\ isDisplaying = FALSE
    /\ onScreen = {}
    /\ wait5000 = <<>>
    /\ wait300 = <<>>
    /\ displayed = <<>>
    /\ nextId = 1

-----------------------------------------------------------------------------
(* Forca                                                                   *)

\* Forca.palavras, each word as its sequence of letters.
palavras ==
    {<<"j", "a", "v", "a", "s", "c", "r", "i", "p", "t">>,
     <<"h", "t", "m", "l">>,
     <<"c", "s", "s">>,
     <<"p", "r", "o", "g", "r", "a", "m", "a", "c", "a", "o">>,
     <<"c", "o", "m", "p", "u", "t", "a", "d", "o", "r">>,
     <<"i", "n", "t", "e", "r", "n", "e", "t">>}

\* Forca.maxErros
maxErros == 6

\* What the user types into the input: two letters of "css", five letters
\* of none of the words, and a digit.
Letters == {"c", "s", "b", "f", "k", "q", "w"}
Typed == Letters \cup {"1"}

\* Array.prototype.includes, String.prototype.includes for one character
includes(seq, x) == \E i \in 1 .. Len(seq) : seq[i] = x

\* The text of #forca-palavra has no '_' left.
wordRevealed(word, corretas) == \A i \in 1 .. Len(word) : includes(corretas, word[i])

\* Forca.constructor, with word as the result of escolherPalavra.
forcaWith(word) ==
    /\ palavraSecreta = word
    /\ letrasErradas = <<>>
    /\ letrasCorretas = <<>>
    /\ erros = 0
    /\ forcaShown = FALSE
    /\ forcaEnabled = FALSE

\* Forca.constructor; escolherPalavra gives any of the six words.
forcaAtConstruction == \E word \in palavras : forcaWith(word)

\* Forca.constructor where the hangman game is never opened: which word
\* escolherPalavra gave makes no difference there, and one is taken.
forcaUnopened == forcaWith(<<"c", "s", "s">>)

-----------------------------------------------------------------------------
(* ListaDeTarefas                                                          *)

\* Greatest number of tasks in the list.
MaxTasks == 2

\* What the user types into #taskInput, as sequences of characters.
TaskInputs ==
    {<<>>, <<" ">>, <<" ", " ">>, <<"a">>, <<" ", "a", " ">>, <<"a", " ", "b">>}

\* The indices toggleTask and deleteTask are called with.
Indices == -1 .. MaxTasks

\* String.prototype.trim, its two halves.
RECURSIVE trimStart(_)
trimStart(str) ==
    IF str # <<>> /\ Head(str) = " " THEN trimStart(Tail(str)) ELSE str

RECURSIVE trimEnd(_)
trimEnd(str) ==
    IF str # <<>> /\ str[Len(str)] = " "
    THEN trimEnd(SubSeq(str, 1, Len(str) - 1))
    ELSE str

trim(str) == trimEnd(trimStart(str))

\* A task as addTask makes it.
task(text, completed) == [text |-> text, completed |-> completed]

\* JSON.stringify of a task list: the text, as the pairs of its objects.
stringifyTasks(list) == [i \in 1 .. Len(list) |-> <<list[i].text, list[i].completed>>]

\* JSON.parse of such a text.
parseTasks(text) == [i \in 1 .. Len(text) |-> task(text[i][1], text[i][2])]

\* getItem('tasks'): null, or a text.
noTasks == [kind |-> "absent", text |-> <<>>]
tasksJson(text) == [kind |-> "json", text |-> text]

\* ListaDeTarefas.loadTasks
loadTasks(saved) ==
    IF saved.kind = "absent" THEN <<>> ELSE parseTasks(saved.text)

\* ListaDeTarefas.saveTasks: the entry after the call; setItem throws and
\* writes nothing when the storage is full.
saveTasks(list, saved, store) ==
    IF store = "ok" THEN tasksJson(stringifyTasks(list)) ELSE saved

\* Array.prototype.splice(index, 1) for an index within the list
splice(list, index) ==
    SubSeq(list, 1, index) \o SubSeq(list, index + 2, Len(list))

validIndex(list, index) == index >= 0 /\ index < Len(list)

\* ListaDeTarefas.constructor where the to-do list is never opened and
\* nothing was stored.
todoUnopened ==
    /\ storedTasks = noTasks
    /\ tasks = loadTasks(noTasks)
    /\ tasksStorage = "ok"
    /\ todoShown = FALSE
    /\ todoRaised = FALSE

-----------------------------------------------------------------------------
(* The game as the page runs it                                            *)

Init ==
    /\ gameBoard = emptyBoard
    /\ currentPlayer = "X"
    /\ gameActive = TRUE
    /\ timers = 0
    /\ boardShown = FALSE
    /\ status = ""
    /\ handler = "none"
    /\ outcome = "done"
    /\ bestMoveIndex = NoMove
    /\ winner = "null"
    /\ calcAtConstruction
    /\ htmlAtStart
    /\ notifAtConstruction
    /\ forcaUnopened
    /\ todoUnopened

\* A click on cell index of the rendered grid.
handleClick(index) ==
    /\ boardShown
    /\ UNCHANGED nonGameVars
    /\ handler' = "handleClick"
    /\ UNCHANGED <<boardShown, bestMoveIndex, winner>>
    /\ IF cellIsFree(gameBoard, index, gameActive)
       THEN LET b == [gameBoard EXCEPT ![index] = currentPlayer]
                r == afterMark(b, currentPlayer, gameActive, status)
                schedule == ~r.returned /\ r.currentPlayer = "O" /\ r.gameActive
            IN /\ schedule => timers < MaxTimers
               /\ gameBoard' = b
               /\ currentPlayer' = r.currentPlayer
               /\ gameActive' = r.gameActive
               /\ status' = r.status
               /\ timers' = IF schedule THEN timers + 1 ELSE timers
               /\ outcome' = "placed"
       ELSE /\ outcome' = "ignored"
            /\ UNCHANGED <<gameBoard, currentPlayer, gameActive, status, timers>>

\* A pending timer fires and runs makeComputerMove.
makeComputerMove ==
    /\ timers > 0
    /\ timers' = timers - 1
    /\ UNCHANGED nonGameVars
    /\ handler' = "makeComputerMove"
    /\ UNCHANGED <<boardShown, bestMoveIndex, winner>>
    /\ IF ~computerMayMove(gameActive, currentPlayer)
       THEN /\ outcome' = "ignored"
            /\ UNCHANGED <<gameBoard, currentPlayer, gameActive, status>>
       ELSE LET g == getBestMove(gameBoard) IN
            /\ IF g.index = NoMove
               THEN /\ gameBoard' = g.board
                    /\ outcome' = "ignored"
                    /\ UNCHANGED <<currentPlayer, gameActive, status>>
               ELSE LET b == [g.board EXCEPT ![g.index] = "O"] IN
                    /\ gameBoard' = b
                    /\ IF ~boardShown
                       THEN \* renderCell: querySelector gives null
                            /\ outcome' = "threw"
                            /\ UNCHANGED <<currentPlayer, gameActive, status>>
                       ELSE LET r == afterMark(b, currentPlayer, gameActive, status) IN
                            /\ outcome' = "placed"
                            /\ currentPlayer' = r.currentPlayer
                            /\ gameActive' = r.gameActive
                            /\ status' = r.status

\* renderBoard: rebuild the grid and the status element, then updateStatus.
renderBoard(b, p, active) == updateStatus(b, p, active, "")

\* A reset that forgets to hand the turn back to X.
reiniciarJogo_keepsPlayer ==
    /\ boardShown
    /\ currentPlayer' = currentPlayer
    /\ gameBoard' = emptyBoard
    /\ LET u == renderBoard(emptyBoard, currentPlayer, TRUE) IN
       /\ gameActive' = u.gameActive
       /\ status' = u.status
    /\ UNCHANGED nonGameVars
    /\ handler' = "reiniciarJogo"
    /\ outcome' = "done"
    /\ UNCHANGED <<timers, boardShown, bestMoveIndex, winner>>

\* The "Reiniciar Jogo" button of the rendered board.
reiniciarJogo ==
    /\ boardShown
    /\ currentPlayer' = "X"
    /\ gameBoard' = emptyBoard
    /\ LET u == renderBoard(emptyBoard, "X", TRUE) IN
       /\ gameActive' = u.gameActive
       /\ status' = u.status
    /\ UNCHANGED nonGameVars
    /\ handler' = "reiniciarJogo"
    /\ outcome' = "done"
    /\ UNCHANGED <<timers, boardShown, bestMoveIndex, winner>>

\* Menu option 10.
showJogoDaVelha ==
    /\ LET u == renderBoard(gameBoard, currentPlayer, gameActive) IN
       /\ gameActive' = u.gameActive
       /\ status' = u.status
    /\ boardShown' = TRUE
    /\ UNCHANGED nonGameVars
    /\ handler' = "showJogoDaVelha"
    /\ outcome' = "done"
    /\ UNCHANGED <<gameBoard, currentPlayer, timers, bestMoveIndex, winner>>

\* "Voltar ao Menu", or any other menu option: the content area is replaced.
voltarAoMenu ==
    /\ boardShown
    /\ boardShown' = FALSE
    /\ status' = ""
    /\ UNCHANGED nonGameVars
    /\ handler' = "voltarAoMenu"
    /\ outcome' = "done"
    /\ UNCHANGED <<gameBoard, currentPlayer, gameActive, timers, bestMoveIndex, winner>>

Next ==
    \/ \E index \in Cells : handleClick(index)
    \/ makeComputerMove
    \/ reiniciarJogo
    \/ showJogoDaVelha
    \/ voltarAoMenu

Spec == Init /\ [][Next]_vars

-----------------------------------------------------------------------------
(* The pure queries of the class applied to an arbitrary board             *)

InitBoards ==
    /\ gameBoard \in Boards
    /\ currentPlayer = "X"
    /\ gameActive = TRUE
    /\ timers = 0
    /\ boardShown = FALSE
    /\ status = ""
    /\ handler = "none"
    /\ outcome = "done"
    /\ bestMoveIndex = NoMove
    /\ winner = "null"
    /\ calcAtConstruction
    /\ htmlAtStart
    /\ notifAtConstruction
    /\ forcaUnopened
    /\ todoUnopened

callGetBestMove ==
    /\ LET g == getBestMove(gameBoard) IN
       /\ bestMoveIndex' = g.index
       /\ gameBoard' = g.board
    /\ UNCHANGED nonGameVars
    /\ handler' = "getBestMove"
    /\ outcome' = "done"
    /\ UNCHANGED <<currentPlayer, gameActive, timers, boardShown, status, winner>>

callCheckWinner ==
    /\ winner' = checkWinner(gameBoard)
    /\ UNCHANGED nonGameVars
    /\ handler' = "checkWinner"
    /\ outcome' = "done"
    /\ UNCHANGED <<gameBoard, currentPlayer, gameActive, timers, boardShown,
                   status, bestMoveIndex>>

NextBoards ==
    \/ callGetBestMove
    \/ callCheckWinner

SpecBoards == InitBoards /\ [][NextBoards]_vars

-----------------------------------------------------------------------------
(* A match: the human moves as X, the opponent replies to each move        *)

\* A click of the human when it is X's turn and no reply is pending.
humanMove(index) ==
    /\ currentPlayer = "X"
    /\ timers = 0
    /\ handleClick(index)

\* The opponent's callback, with the board on screen.
opponentReply ==
    /\ boardShown
    /\ makeComputerMove

NextMatch ==
    \/ showJogoDaVelha /\ ~boardShown
    \/ \E index \in Cells : humanMove(index)
    \/ opponentReply

SpecMatch == Init /\ [][NextMatch]_vars

-----------------------------------------------------------------------------
(* The calculator's history as the page runs it                            *)

StorageStates == {"ok", "full", "denied"}

InitCalc ==
    /\ gameBoard = emptyBoard
    /\ currentPlayer = "X"
    /\ gameActive = TRUE
    /\ timers = 0
    /\ boardShown = FALSE
    /\ status = ""
    /\ handler = "none"
    /\ outcome = "done"
    /\ bestMoveIndex = NoMove
    /\ winner = "null"
    /\ history = emptyArray
    /\ calcHistory \in FoundValues
    /\ storage \in StorageStates
    /\ calcShown = FALSE
    /\ calcOp = "none"
    /\ raised = FALSE
    /\ returned = NoResult
    /\ foreign = (calcHistory # absent)
    /\ clock = 1
    /\ keydownListeners = 0
    /\ sinceEmpty = [valid |-> TRUE, calls |-> <<>>]
    /\ htmlAtStart
    /\ notifAtConstruction
    /\ forcaUnopened
    /\ todoUnopened

\* The entries appended since the history was last empty, after a step
\* that leaves the history h2 and appended the entries in added.
appendedSince(h2, added) ==
    IF h2 = emptyArray THEN [valid |-> TRUE, calls |-> <<>>]
    ELSE IF added # <<>>
         THEN IF sinceEmpty.valid
              THEN [sinceEmpty EXCEPT !.calls = @ \o added]
              ELSE sinceEmpty
    ELSE IF h2 # history THEN [valid |-> FALSE, calls |-> <<>>]
    ELSE sinceEmpty

\* The page is loaded again and App's constructor makes a new Calculator.
newCalculator ==
    /\ history' = emptyArray
    /\ calcShown' = FALSE
    /\ calcOp' = "newCalculator"
    /\ raised' = FALSE
    /\ returned' = NoResult
    /\ sinceEmpty' = appendedSince(emptyArray, <<>>)
    /\ keydownListeners' = 0
    /\ UNCHANGED <<calcHistory, storage, foreign, clock>>
    /\ UNCHANGED nonCalcVars

\* Menu option 9: render, then initialize (loadHistory), then
\* setupEventListeners, which adds one more keydown listener to document.
showCalculator ==
    /\ keydownListeners < MaxListeners
    /\ keydownListeners' = keydownListeners + 1
    /\ LET h2 == loadHistory(history, calcHistory, storage, TRUE) IN
       /\ history' = h2
       /\ sinceEmpty' = appendedSince(h2, <<>>)
    /\ calcShown' = TRUE
    /\ calcOp' = "loadHistory"
    /\ raised' = FALSE
    /\ returned' = NoResult
    /\ UNCHANGED <<calcHistory, storage, foreign, clock>>
    /\ UNCHANGED nonCalcVars

\* The page's own start-up script: a new Calculator is initialized before
\* it is rendered, so loadHistory runs without the list element.
inlineInitialisation ==
    /\ keydownListeners' = 1
    /\ LET h2 == loadHistory(emptyArray, calcHistory, storage, FALSE) IN
       /\ history' = h2
       /\ sinceEmpty' = appendedSince(h2, <<>>)
    /\ calcShown' = TRUE
    /\ calcOp' = "initialize"
    /\ raised' = FALSE
    /\ returned' = NoResult
    /\ UNCHANGED <<calcHistory, storage, foreign, clock>>
    /\ UNCHANGED nonCalcVars

\* "Voltar ao Menu", or any other menu option, while the calculator is shown.
leaveCalculator ==
    /\ calcShown
    /\ calcShown' = FALSE
    /\ calcOp' = "leaveCalculator"
    /\ raised' = FALSE
    /\ returned' = NoResult
    /\ UNCHANGED <<history, calcHistory, storage, foreign, clock, keydownListeners, sinceEmpty>>
    /\ UNCHANGED nonCalcVars

\* calculate(expression)
calculate(expression) ==
    LET replaced == replacePercent(expression)
        result == evaluate(replaced)
    IN /\ calcOp' = "calculate"
       /\ UNCHANGED <<storage, calcShown, foreign, keydownListeners>>
       /\ UNCHANGED nonCalcVars
       /\ IF result.threw \/ ~result.finite
          THEN /\ raised' = TRUE
               /\ returned' = NoResult
               /\ UNCHANGED <<history, calcHistory, clock, sinceEmpty>>
          ELSE LET now == clock
                   a == addToHistory(history, calcHistory, storage, calcShown,
                                     replaced, result.value, now)
                   added == IF isArray(history)
                            THEN <<historyItem(replaced, result.value, now)>>
                            ELSE <<>>
               IN /\ clock <= MaxInstant
                  /\ clock' = clock + 1
                  /\ history' = a.history
                  /\ calcHistory' = a.calcHistory
                  /\ raised' = a.raised
                  /\ returned' = IF a.raised THEN NoResult ELSE result.value
                  /\ sinceEmpty' = appendedSince(a.history, added)

\* display.value = result: the text of a number.
toText(value) == IF value = 2 THEN "2" ELSE "0"

\* handleButtonClick('=') run times times in a row on a display that holds
\* text, from the history, stored value and instant in st: each run calls
\* calculate on the display and, if that returns, writes the result into
\* the display; an exception is caught and shown as a notification.
RECURSIVE handleButtonClick(_, _, _)
handleButtonClick(times, st, text) ==
    IF times = 0 THEN st
    ELSE LET replaced == replacePercent(text)
             result == evaluate(replaced)
         IN IF result.threw \/ ~result.finite
            THEN handleButtonClick(times - 1, st, text)
            ELSE LET a == addToHistory(st.history, st.calcHistory, storage,
                                       calcShown, replaced, result.value, st.clock)
                     item == historyItem(replaced, result.value, st.clock)
                 IN handleButtonClick(
                        times - 1,
                        [history |-> a.history,
                         calcHistory |-> a.calcHistory,
                         clock |-> st.clock + 1,
                         added |-> IF isArray(st.history)
                                   THEN st.added \o <<item>> ELSE st.added],
                        IF a.raised THEN text ELSE toText(result.value))

\* The effect on the Calculator of that many runs of handleButtonClick('=').
equalsPressed(times, text) ==
    LET st == handleButtonClick(times,
                  [history |-> history, calcHistory |-> calcHistory,
                   clock |-> clock, added |-> <<>>], text)
    IN /\ st.clock <= MaxInstant + 1
       /\ history' = st.history
       /\ calcHistory' = st.calcHistory
       /\ clock' = st.clock
       /\ sinceEmpty' = appendedSince(st.history, st.added)
       /\ raised' = FALSE
       /\ returned' = NoResult
       /\ UNCHANGED <<storage, calcShown, foreign, keydownListeners>>
       /\ UNCHANGED nonCalcVars

\* A click on the '=' button of the rendered calculator, whose display
\* holds text: the one click listener of the button group runs.
clickEquals(text) ==
    /\ calcShown
    /\ calcOp' = "clickEquals"
    /\ equalsPressed(1, text)

\* Enter or '=' is pressed while the calculator is rendered and its display
\* holds text: every keydown listener on document runs handleKeyPress.
handleKeyPress(text) ==
    /\ calcShown
    /\ calcOp' = "handleKeyPress"
    /\ equalsPressed(keydownListeners, text)

\* A clear that leaves the stored value alone.
clearHistory_memoryOnly ==
    /\ history' = emptyArray
    /\ calcHistory' = calcHistory
    /\ calcOp' = "clearHistory"
    /\ raised' = updateHistoryDisplay(emptyArray, calcShown)
    /\ returned' = NoResult
    /\ sinceEmpty' = appendedSince(emptyArray, <<>>)
    /\ UNCHANGED <<storage, calcShown, foreign, clock, keydownListeners>>
    /\ UNCHANGED nonCalcVars

\* The "Limpar Histórico" button.
clearHistory ==
    /\ history' = emptyArray
    /\ calcHistory' = saveHistory(emptyArray, calcHistory, storage)
    /\ calcOp' = "clearHistory"
    /\ raised' = updateHistoryDisplay(emptyArray, calcShown)
    /\ returned' = NoResult
    /\ sinceEmpty' = appendedSince(emptyArray, <<>>)
    /\ UNCHANGED <<storage, calcShown, foreign, clock, keydownListeners>>
    /\ UNCHANGED nonCalcVars

\* localStorage stops accepting writes (quota) or any access (blocked).
storageFails(state) ==
    /\ storage = "ok"
    /\ state # "ok"
    /\ storage' = state
    /\ calcOp' = "storageFails"
    /\ raised' = FALSE
    /\ returned' = NoResult
    /\ UNCHANGED <<history, calcHistory, calcShown, foreign, clock, keydownListeners, sinceEmpty>>
    /\ UNCHANGED nonCalcVars

NextCalc ==
    \/ newCalculator
    \/ showCalculator
    \/ inlineInitialisation
    \/ leaveCalculator
    \/ \E expression \in Expressions : calculate(expression)
    \/ clearHistory
    \/ \E state \in StorageStates : storageFails(state)

SpecCalc == InitCalc /\ [][NextCalc]_vars

-----------------------------------------------------------------------------
(* The calculator as its buttons and keys drive it                         *)

InitKeys ==
    /\ gameBoard = emptyBoard
    /\ currentPlayer = "X"
    /\ gameActive = TRUE
    /\ timers = 0
    /\ boardShown = FALSE
    /\ status = ""
    /\ handler = "none"
    /\ outcome = "done"
    /\ bestMoveIndex = NoMove
    /\ winner = "null"
    /\ calcAtConstruction
    /\ htmlAtStart
    /\ notifAtConstruction
    /\ forcaUnopened
    /\ todoUnopened

NextKeys ==
    \/ newCalculator
    \/ showCalculator
    \/ inlineInitialisation
    \/ leaveCalculator
    \/ \E text \in Expressions : clickEquals(text)
    \/ \E text \in Expressions : handleKeyPress(text)
    \/ clearHistory

SpecKeys == InitKeys /\ [][NextKeys]_vars

-----------------------------------------------------------------------------
(* The templates that write user-supplied strings into HTML                *)

InitHtml ==
    /\ gameBoard = emptyBoard
    /\ currentPlayer = "X"
    /\ gameActive = TRUE
    /\ timers = 0
    /\ boardShown = FALSE
    /\ status = ""
    /\ handler = "none"
    /\ outcome = "done"
    /\ bestMoveIndex = NoMove
    /\ winner = "null"
    /\ calcAtConstruction
    /\ userInput \in Strings
    /\ markup = <<>>
    /\ notifAtConstruction
    /\ forcaUnopened
    /\ todoUnopened

\* App.exibirNome with userInput in the name field.
exibirNome ==
    /\ userInput # <<>>
    /\ markup' = <<literal("<h2>Ola, "), interpolated(sanitizeInput(userInput)),
                   literal("! Seja bem-vindo(a)!</h2>")>>
    /\ UNCHANGED userInput
    /\ UNCHANGED nonHtmlVars

\* The function exibirNome of part_000 with userInput in the name field.
part000_exibirNome ==
    /\ userInput # <<>>
    /\ markup' = <<literal("<h2>Ola, "), interpolated(userInput),
                   literal("! Seja bem-vindo(a)!</h2>")>>
    /\ UNCHANGED userInput
    /\ UNCHANGED nonHtmlVars

\* ListaDeTarefas.renderTaskListItems on a list of one task whose text is
\* userInput.
renderTaskListItems ==
    /\ markup' = <<literal("<li class=todo-item><input type=checkbox><span>"),
                   interpolated(sanitizeInput(userInput)),
                   literal("</span><button class=delete-btn aria-label=\"Excluir tarefa "),
                   interpolated(userInput),
                   literal("\">Excluir</button></li>")>>
    /\ UNCHANGED userInput
    /\ UNCHANGED nonHtmlVars

\* The list item Calculator.updateHistoryDisplay writes for an entry whose
\* expression is userInput.
historyListItem ==
    /\ markup' = <<literal("<li class=history-item><span class=expression>"),
                   interpolated(sanitizeInput(userInput)),
                   literal("</span><span class=separator>=</span>...</li>")>>
    /\ UNCHANGED userInput
    /\ UNCHANGED nonHtmlVars

\* The element Notifications.displayNext writes for a message userInput.
notificationElement ==
    /\ markup' = <<literal("<span class=message>"),
                   interpolated(sanitizeInput(userInput)),
                   literal("</span><button class=close>&times;</button>")>>
    /\ UNCHANGED userInput
    /\ UNCHANGED nonHtmlVars

NextHtml ==
    \/ exibirNome
    \/ part000_exibirNome
    \/ renderTaskListItems
    \/ historyListItem
    \/ notificationElement

SpecHtml == InitHtml /\ [][NextHtml]_vars

-----------------------------------------------------------------------------
(* Notifications as the page runs them                                     *)

InitNotifications ==
    /\ gameBoard = emptyBoard
    /\ currentPlayer = "X"
    /\ gameActive = TRUE
    /\ timers = 0
    /\ boardShown = FALSE
    /\ status = ""
    /\ handler = "none"
    /\ outcome = "done"
    /\ bestMoveIndex = NoMove
    /\ winner = "null"
    /\ calcAtConstruction
    /\ htmlAtStart
    /\ notifAtConstruction
    /\ forcaUnopened
    /\ todoUnopened

\* Notifications.displayNext, run with queue q and the elements attached.
displayNext(q, attached) ==
    IF q = <<>>
    THEN /\ isDisplaying' = FALSE
         /\ queue' = q
         /\ onScreen' = attached
         /\ UNCHANGED <<wait5000, displayed>>
    ELSE /\ isDisplaying' = TRUE
         /\ queue' = Tail(q)
         /\ onScreen' = attached \cup {Head(q)}
         /\ wait5000' = Append(wait5000, Head(q))
         /\ displayed' = Append(displayed, Head(q))

\* Notifications.show
show ==
    /\ nextId <= MaxNotifications
    /\ nextId' = nextId + 1
    /\ IF ~isDisplaying
       THEN displayNext(Append(queue, nextId), onScreen)
       ELSE /\ queue' = Append(queue, nextId)
            /\ UNCHANGED <<isDisplaying, onScreen, wait5000, displayed>>
    /\ UNCHANGED wait300
    /\ UNCHANGED nonNotifVars

\* The 5000 ms callback of the oldest notification that waits for it.
fadeOut ==
    /\ wait5000 # <<>>
    /\ wait5000' = Tail(wait5000)
    /\ wait300' = Append(wait300, Head(wait5000))
    /\ UNCHANGED <<queue, isDisplaying, onScreen, displayed, nextId>>
    /\ UNCHANGED nonNotifVars

\* The 300 ms callback of the oldest notification that waits for it.
removeAfterFade ==
    /\ wait300 # <<>>
    /\ wait300' = Tail(wait300)
    /\ displayNext(queue, onScreen \ {Head(wait300)})
    /\ UNCHANGED nextId
    /\ UNCHANGED nonNotifVars

\* A click on the close button of notification n.
closeClick(n) ==
    /\ n \in onScreen
    /\ displayNext(queue, onScreen \ {n})
    /\ UNCHANGED <<wait300, nextId>>
    /\ UNCHANGED nonNotifVars

NextNotifications ==
    \/ show
    \/ fadeOut
    \/ removeAfterFade
    \/ \E n \in 1 .. MaxNotifications + 1 : closeClick(n)

SpecNotifications == InitNotifications /\ [][NextNotifications]_vars

-----------------------------------------------------------------------------
(* The hangman game as the page runs it                                    *)

\* App.showForca: Forca.atualizarJogo writes the screen anew.
showForca ==
    /\ forcaShown' = TRUE
    /\ forcaEnabled' = TRUE
    /\ UNCHANGED <<palavraSecreta, letrasErradas, letrasCorretas, erros>>
    /\ UNCHANGED nonForcaVars

\* "Voltar ao Menu" on the hangman screen.
leaveForca ==
    /\ forcaShown
    /\ forcaShown' = FALSE
    /\ forcaEnabled' = FALSE
    /\ UNCHANGED <<palavraSecreta, letrasErradas, letrasCorretas, erros>>
    /\ UNCHANGED nonForcaVars

\* Forca.adivinharLetra, run by the enabled button (or by Enter in the
\* enabled input) with letra in the input.
adivinharLetra(letra) ==
    /\ forcaShown
    /\ forcaEnabled
    /\ UNCHANGED <<palavraSecreta, forcaShown>>
    /\ UNCHANGED nonForcaVars
    /\ IF letra \notin Letters
       THEN UNCHANGED <<letrasErradas, letrasCorretas, erros, forcaEnabled>>
       ELSE IF includes(letrasCorretas, letra) \/ includes(letrasErradas, letra)
       THEN UNCHANGED <<letrasErradas, letrasCorretas, erros, forcaEnabled>>
       ELSE LET hit == includes(palavraSecreta, letra)
                corretas == IF hit THEN Append(letrasCorretas, letra) ELSE letrasCorretas
                erradas == IF hit THEN letrasErradas ELSE Append(letrasErradas, letra)
                n == IF hit THEN erros ELSE erros + 1
            IN /\ letrasCorretas' = corretas
               /\ letrasErradas' = erradas
               /\ erros' = n
               /\ forcaEnabled' = ~(n = maxErros \/ wordRevealed(palavraSecreta, corretas))

InitForca ==
    /\ gameBoard = emptyBoard
    /\ currentPlayer = "X"
    /\ gameActive = TRUE
    /\ timers = 0
    /\ boardShown = FALSE
    /\ status = ""
    /\ handler = "none"
    /\ outcome = "done"
    /\ bestMoveIndex = NoMove
    /\ winner = "null"
    /\ calcAtConstruction
    /\ htmlAtStart
    /\ notifAtConstruction
    /\ forcaAtConstruction
    /\ todoUnopened

NextForca ==
    \/ showForca
    \/ leaveForca
    \/ \E letra \in Typed : adivinharLetra(letra)

SpecForca == InitForca /\ [][NextForca]_vars

-----------------------------------------------------------------------------
(* The to-do list as the page runs it                                      *)

\* The values the program may have stored under 'tasks' in an earlier visit.
StoredBefore ==
    {noTasks, tasksJson(stringifyTasks(<<>>)),
     tasksJson(stringifyTasks(<<task(<<"a">>, TRUE)>>))}

InitTodo ==
    /\ gameBoard = emptyBoard
    /\ currentPlayer = "X"
    /\ gameActive = TRUE
    /\ timers = 0
    /\ boardShown = FALSE
    /\ status = ""
    /\ handler = "none"
    /\ outcome = "done"
    /\ bestMoveIndex = NoMove
    /\ winner = "null"
    /\ calcAtConstruction
    /\ htmlAtStart
    /\ notifAtConstruction
    /\ forcaUnopened
    /\ storedTasks \in StoredBefore
    /\ tasks = loadTasks(storedTasks)
    /\ tasksStorage = "ok"
    /\ todoShown = FALSE
    /\ todoRaised = FALSE

\* App.showListaDeTarefas
showListaDeTarefas ==
    /\ todoShown' = TRUE
    /\ todoRaised' = FALSE
    /\ UNCHANGED <<tasks, storedTasks, tasksStorage>>
    /\ UNCHANGED nonTodoVars

\* "Voltar ao Menu" on the to-do screen.
leaveTodo ==
    /\ todoShown
    /\ todoShown' = FALSE
    /\ todoRaised' = FALSE
    /\ UNCHANGED <<tasks, storedTasks, tasksStorage>>
    /\ UNCHANGED nonTodoVars

\* ListaDeTarefas.addTask with input in #taskInput.
addTask(input) ==
    /\ UNCHANGED <<tasksStorage, todoShown>>
    /\ UNCHANGED nonTodoVars
    /\ IF ~todoShown
       THEN \* getElementById gives null
            /\ todoRaised' = TRUE
            /\ UNCHANGED <<tasks, storedTasks>>
       ELSE IF trim(input) = <<>>
       THEN /\ todoRaised' = FALSE
            /\ UNCHANGED <<tasks, storedTasks>>
       ELSE LET pushed == Append(tasks, task(trim(input), FALSE)) IN
            /\ Len(tasks) < MaxTasks
            /\ tasks' = pushed
            /\ storedTasks' = saveTasks(pushed, storedTasks, tasksStorage)
            /\ todoRaised' = (tasksStorage # "ok")

\* ListaDeTarefas.toggleTask
toggleTask(index) ==
    /\ UNCHANGED <<tasksStorage, todoShown>>
    /\ UNCHANGED nonTodoVars
    /\ IF validIndex(tasks, index)
       THEN LET toggled == [tasks EXCEPT ![index + 1].completed = ~@] IN
            /\ tasks' = toggled
            /\ storedTasks' = saveTasks(toggled, storedTasks, tasksStorage)
            /\ todoRaised' = (tasksStorage # "ok")
       ELSE /\ todoRaised' = FALSE
            /\ UNCHANGED <<tasks, storedTasks>>

\* ListaDeTarefas.deleteTask
deleteTask(index) ==
    /\ UNCHANGED <<tasksStorage, todoShown>>
    /\ UNCHANGED nonTodoVars
    /\ IF validIndex(tasks, index)
       THEN LET spliced == splice(tasks, index) IN
            /\ tasks' = spliced
            /\ storedTasks' = saveTasks(spliced, storedTasks, tasksStorage)
            /\ todoRaised' = (tasksStorage # "ok")
       ELSE /\ todoRaised' = FALSE
            /\ UNCHANGED <<tasks, storedTasks>>

\* The storage quota is used up: setItem throws from now on.
storageFills ==
    /\ tasksStorage = "ok"
    /\ tasksStorage' = "full"
    /\ UNCHANGED <<tasks, storedTasks, todoShown, todoRaised>>
    /\ UNCHANGED nonTodoVars

NextTodo ==
    \/ showListaDeTarefas
    \/ leaveTodo
    \/ \E input \in TaskInputs : addTask(input)
    \/ \E index \in Indices : toggleTask(index)
    \/ \E index \in Indices : deleteTask(index)
    \/ storageFills

SpecTodo == InitTodo /\ [][NextTodo]_vars

-----------------------------------------------------------------------------
(* Vocabulary of the properties, independent of the code's loops           *)

\* The 8 triples: rows, columns, diagonals.
Lines ==
    { {0, 1, 2}, {3, 4, 5}, {6, 7, 8},
      {0, 3, 6}, {1, 4, 7}, {2, 5, 8},
      {0, 4, 8}, {2, 4, 6} }

HasLine(b, m) == \E L \in Lines : \A c \in L : b[c] = m

NoLine(b) == ~HasLine(b, "X") /\ ~HasLine(b, "O")

HasEmpty(b) == \E c \in Cells : b[c] = ""

\* Cell c is empty and is the missing third of a line whose two other cells
\* hold m.
Completes(b, c, m) ==
    /\ b[c] = ""
    /\ \E L \in Lines : c \in L /\ \A d \in L \ {c} : b[d] = m

CompletingCells(b, m) == {c \in Cells : Completes(b, c, m)}

Lowest(S) == CHOOSE c \in S : \A d \in S : c <= d

Board(c0, c1, c2, c3, c4, c5, c6, c7, c8) ==
    [i \in Cells |-> <<c0, c1, c2, c3, c4, c5, c6, c7, c8>>[i + 1]]

-----------------------------------------------------------------------------
(* Properties of the game                                                  *)

\* This step writes a mark into an empty cell.
MarkPlaced == \E c \in Cells : gameBoard[c] = "" /\ gameBoard'[c] # ""

\* This step is a handleClick call on an occupied cell or on a finished game.
RejectedClick ==
    \E index \in Cells :
        handleClick(index) /\ (gameBoard[index] # "" \/ ~gameActive)

\* An opponent callback scheduled by an accepted human move is still
\* pending: the game is in progress, it is O's turn, a timer is queued.
CallbackPending == timers > 0 /\ gameActive /\ currentPlayer = "O"

\* C1: while an opponent callback is pending, every handleClick call on any
\* cell leaves gameBoard and currentPlayer unchanged.
C1_NoHumanMoveWhilePending ==
    [][(CallbackPending /\ \E index \in Cells : handleClick(index))
          => UNCHANGED <<gameBoard, currentPlayer>>]_vars

\* C2: handleClick on an occupied cell, or on any cell once the game is
\* over, changes neither the board, the turn nor gameActive, schedules no
\* callback and raises nothing, however often it is repeated.
C2_RejectedClickIsNoOp ==
    [][RejectedClick
          => /\ UNCHANGED <<gameBoard, currentPlayer, gameActive, timers, status>>
             /\ outcome' # "threw"]_vars

\* A click was refused: on a finished game whose board still has an empty
\* cell, with the refusal as the last thing that happened.
C2_Witness ==
    /\ handler = "handleClick"
    /\ outcome = "ignored"
    /\ ~gameActive
    /\ HasEmpty(gameBoard)

\* The game ends in this step.
Ends == gameActive /\ ~gameActive'

\* C7: the win check precedes the draw check.  Whenever the game ends, it
\* ends as a draw exactly when the board has no empty cell and no mark has a
\* complete line, and as a win for m exactly when m has a complete line; so
\* a ninth mark that completes a line ends the game as a win.
C7_WinBeforeDraw ==
    [][Ends => /\ status' = "Empate"
                    <=> ~HasEmpty(gameBoard') /\ NoLine(gameBoard')
               /\ \A m \in Marks :
                    status' = m \o " venceu" <=> HasLine(gameBoard', m)]_vars

\* A human move has filled the ninth cell and completed a line for X: the
\* game is over and announced as X's win.
C7_Witness ==
    /\ handler = "handleClick"
    /\ outcome = "placed"
    /\ ~HasEmpty(gameBoard)
    /\ HasLine(gameBoard, "X")
    /\ ~gameActive
    /\ status = "X venceu"

\* C8: currentPlayer changes to the other mark in every step that places a
\* mark, whether handleClick or makeComputerMove places it, and is left as
\* it is by every rejected move attempt.
C8_TurnAlternates ==
    [][/\ MarkPlaced => currentPlayer' = togglePlayer(currentPlayer)
       /\ RejectedClick => currentPlayer' = currentPlayer]_vars

\* C9: once the game has ended, no handleClick call and no opponent
\* callback changes the board, the outcome shown or gameActive, and only
\* reiniciarJogo makes the game active again.
C9_EndedStaysEnded ==
    [][~gameActive =>
         /\ gameActive' => reiniciarJogo
         /\ (makeComputerMove \/ \E index \in Cells : handleClick(index))
              => UNCHANGED <<gameBoard, currentPlayer, gameActive, status>>]_vars

\* The game was won by X and an opponent callback that was still pending
\* has run since.
C9_Witness ==
    /\ ~gameActive
    /\ HasLine(gameBoard, "X")
    /\ status = "X venceu"
    /\ handler = "makeComputerMove"

\* C10: except in a reset, every cell that holds a mark holds the same mark
\* after the step.
C10_MarksStay ==
    [][~reiniciarJogo =>
         \A c \in Cells : gameBoard[c] # "" => gameBoard'[c] = gameBoard[c]]_vars

\* The opponent has just placed a mark on a board that already held at
\* least four.
C10_Witness ==
    /\ handler = "makeComputerMove"
    /\ outcome = "placed"
    /\ Cardinality({c \in Cells : gameBoard[c] # ""}) >= 5

\* C11: in every reachable state at most one mark has a complete
\* three-in-a-row.
C11_AtMostOneWinner == ~(HasLine(gameBoard, "X") /\ HasLine(gameBoard, "O"))

\* The opponent has completed a line of its own on a board on which X holds
\* two cells of a row.
C11_Witness ==
    /\ handler = "makeComputerMove"
    /\ outcome = "placed"
    /\ HasLine(gameBoard, "O")
    /\ CompletingCells(gameBoard, "X") # {}

\* C12: reiniciarJogo, from whatever state it is called in, leaves all nine
\* cells empty, currentPlayer = X and the game in progress.
C12_ResetRestoresInitialState ==
    [][reiniciarJogo =>
         /\ gameBoard' = emptyBoard
         /\ currentPlayer' = "X"
         /\ gameActive']_vars

\* A reset has just run while an opponent callback was pending.
C12_Witness ==
    /\ handler = "reiniciarJogo"
    /\ timers > 0
    /\ gameBoard = emptyBoard
    /\ currentPlayer = "X"
    /\ gameActive

\* The O marks written by this step, as a set of cells.
NewOs == {c \in Cells : gameBoard[c] = "" /\ gameBoard'[c] = "O"}

\* C13: an opponent callback that fires while the game is in progress with
\* O to move completes: it places exactly one O on an empty cell, changes no
\* other cell, and then either ends the game or hands the turn to X; so the
\* game is never in progress with O to move and no callback pending.
C13_CallbackCompletes ==
    /\ [][(makeComputerMove /\ gameActive /\ currentPlayer = "O")
            => /\ Cardinality(NewOs) = 1
               /\ \A c \in Cells \ NewOs : gameBoard'[c] = gameBoard[c]
               /\ (~gameActive' \/ currentPlayer' = "X")]_vars
    /\ [](~(gameActive /\ currentPlayer = "O" /\ timers = 0))

\* C14: getBestMove returns null exactly when the board has no empty cell,
\* and whenever makeComputerMove passes its guard the board has an empty
\* cell (so the null result is never met in play).
C14_MoveAlwaysAvailable ==
    /\ [](getBestMove(gameBoard).index = NoMove <=> ~HasEmpty(gameBoard))
    /\ [][(makeComputerMove /\ computerMayMove(gameActive, currentPlayer))
             => HasEmpty(gameBoard)]_vars

-----------------------------------------------------------------------------
(* Properties of getBestMove and checkWinner on arbitrary boards           *)

\* The index getBestMove has just returned for the board it was called on.
Returned(P(_, _)) == handler' = "getBestMove" => P(gameBoard, bestMoveIndex')

OOwinsXXthreat == Board("O", "O", "", "X", "X", "", "", "", "")
XXthreatOOwins == Board("X", "X", "", "O", "O", "", "", "", "")

WinFirst(b, r) ==
    CompletingCells(b, "O") # {} => r = Lowest(CompletingCells(b, "O"))

\* C3 as stated: on every board over {empty, X, O} on which some empty cell
\* completes a three-in-a-row for O, getBestMove returns the lowest such
\* cell.
C3_WinFirstOnEveryBoard == [][Returned(WinFirst)]_vars

WinFirstNoLine(b, r) ==
    /\ NoLine(b) => WinFirst(b, r)
    /\ b = OOwinsXXthreat => r = 2
    /\ b = XXthreatOOwins => r = 5

\* C3 amended: on every board holding no complete line on which some empty
\* cell completes a three-in-a-row for O, getBestMove returns the lowest
\* such cell, whatever X threatens and whatever positional cell is free; it
\* returns 2 on [O,O,_,X,X,_,_,_,_] and 5 on [X,X,_,O,O,_,_,_,_].
C3_WinFirst == [][Returned(WinFirstNoLine)]_vars

\* getBestMove answered 2 on [O,O,_,X,X,_,_,_,_], where X threatens 5 and
\* the centre is taken.
C3_Witness ==
    /\ handler = "getBestMove"
    /\ gameBoard = OOwinsXXthreat
    /\ bestMoveIndex = 2

BlockNext(b, r) ==
    CompletingCells(b, "O") = {} /\ CompletingCells(b, "X") # {}
        => r = Lowest(CompletingCells(b, "X"))

\* C4 as stated: on every board on which no empty cell completes a line for
\* O and some empty cell completes one for X, getBestMove returns the lowest
\* cell completing a line for X.
C4_BlockOnEveryBoard == [][Returned(BlockNext)]_vars

BlockNextNoLine(b, r) == NoLine(b) => BlockNext(b, r)

\* C4 amended: the same on every board holding no complete line.
C4_Block == [][Returned(BlockNextNoLine)]_vars

\* getBestMove answered 2 on [X,X,_,_,O,_,_,_,_]: O has no winning cell, the
\* positional tier would have taken corner 6 or 8.
C4_Witness ==
    /\ handler = "getBestMove"
    /\ gameBoard = Board("X", "X", "", "", "O", "", "", "", "")
    /\ bestMoveIndex = 2

\* The first empty cell in the order 4,0,2,6,8,1,3,5,7, spelled out.
FirstInFixedOrder(b) ==
    IF b[4] = "" THEN 4 ELSE IF b[0] = "" THEN 0 ELSE IF b[2] = "" THEN 2
    ELSE IF b[6] = "" THEN 6 ELSE IF b[8] = "" THEN 8 ELSE IF b[1] = "" THEN 1
    ELSE IF b[3] = "" THEN 3 ELSE IF b[5] = "" THEN 5 ELSE 7

Positional(b, r) ==
    /\ HasEmpty(b)
    /\ CompletingCells(b, "O") = {}
    /\ CompletingCells(b, "X") = {}
    => r = FirstInFixedOrder(b)

\* C5 as stated: on every board with an empty cell on which neither mark can
\* complete a three-in-a-row with one mark, getBestMove returns the first
\* empty cell in the order 4,0,2,6,8,1,3,5,7.
C5_PositionalOnEveryBoard == [][Returned(Positional)]_vars

PositionalNoLine(b, r) == NoLine(b) => Positional(b, r)

\* C5 amended: the same on every board holding no complete line.
C5_Positional == [][Returned(PositionalNoLine)]_vars

\* getBestMove answered corner 2 on [X,_,_,_,O,_,_,_,_]: centre and corner 0
\* are taken, nobody threatens.
C5_Witness ==
    /\ handler = "getBestMove"
    /\ gameBoard = Board("X", "", "", "", "O", "", "", "", "")
    /\ bestMoveIndex = 2

-----------------------------------------------------------------------------
(* Properties of the calculator's history                                  *)

Reverse(s) == [i \in 1 .. Len(s) |-> s[Len(s) + 1 - i]]

\* The last n elements of s (all of s when it has fewer).
LastN(s, n) == SubSeq(s, IF Len(s) > n THEN Len(s) - n + 1 ELSE 1, Len(s))

\* This step is a calculate whose expression evaluated to a finite result,
\* so that addToHistory was called.
AddToHistoryCalled == (\E expression \in Expressions : calculate(expression)) /\ clock' # clock

\* The entry that call made.
NewEntry == historyItem("200/100", 2, clock)

\* This step ran loadHistory.
LoadHistoryCalled == showCalculator \/ inlineInitialisation

\* C15: as long as loadHistory has only read values this program stored,
\* the history is an array of at most 10 entries after every operation.
C15_AtMostTenEntries ==
    ~foreign => isArray(history) /\ Len(history.items) <= HistoryLimit

C15_Witness ==
    /\ ~foreign
    /\ calcOp = "loadHistory"
    /\ ~sinceEmpty.valid
    /\ Len(history.items) = HistoryLimit

\* C16: after n appends since the history was last empty, the history is
\* the last min(n, 10) appended entries, newest first; and an append on a
\* history of length 10 gives a history of length 10 with the new entry at
\* index 0, the former entries 0..8 at 1..9 and the former entry 9 gone.
C16_NewestFirst ==
    /\ [](sinceEmpty.valid
            => /\ isArray(history)
               /\ history.items = Reverse(LastN(sinceEmpty.calls, HistoryLimit)))
    /\ [][(AddToHistoryCalled /\ isArray(history) /\ Len(history.items) = HistoryLimit)
            => /\ isArray(history')
               /\ Len(history'.items) = HistoryLimit
               /\ history'.items[1] = NewEntry
               /\ \A i \in 1 .. HistoryLimit - 1 : history'.items[i + 1] = history.items[i]]_vars

C16_Witness ==
    /\ calcOp = "calculate"
    /\ sinceEmpty.valid
    /\ Len(sinceEmpty.calls) > HistoryLimit
    /\ Len(history.items) = HistoryLimit
    /\ history.items[1].timestamp = clock - 1

C18_StoredEqualsMemory ==
    [][((AddToHistoryCalled /\ isArray(history)) \/ clearHistory) /\ storage = "ok"
         => /\ calcHistory'.kind = "json"
            /\ parse(calcHistory'.text) = history'
            /\ loadHistory(emptyArray, calcHistory', storage', FALSE) = history']_vars

C18_Witness ==
    /\ calcOp = "loadHistory"
    /\ storage = "ok"
    /\ ~foreign
    /\ ~sinceEmpty.valid
    /\ Len(history.items) = HistoryLimit
    /\ history = parse(calcHistory.text)
    /\ history.items[1].timestamp > history.items[2].timestamp

\* The stored value is absent, is not parsable, or parses to something
\* that is not a list of history entries.
NoListOfEntries(saved) ==
    \/ saved.kind \in {"absent", "empty", "unparsable"}
    \/ ~isArray(parse(saved.text))
    \/ \E i \in 1 .. Len(saved.text.items) : parse(saved.text).items[i].type # "entry"

\* C19: at start-up, when the stored value is absent, unparsable or not a
\* list of entries, loadHistory leaves the history the empty array and
\* raises nothing, and an addToHistory after it succeeds and leaves a
\* history of length 1.
C19_CorruptValueGivesEmptyHistory ==
    /\ [][(LoadHistoryCalled /\ history = emptyArray /\ NoListOfEntries(calcHistory))
            => history' = emptyArray /\ ~raised']_vars
    /\ [][(calcOp \in {"loadHistory", "initialize"} /\ NoListOfEntries(calcHistory) /\ AddToHistoryCalled)
            => /\ ~raised'
               /\ isArray(history')
               /\ Len(history'.items) = 1]_vars

\* C20: when the storage read of loadHistory fails, or the storage write of
\* addToHistory or clearHistory, the operation does not raise and works on
\* the history in memory alone (a new Calculator's stays empty, a clear
\* empties it, an append puts its entry at index 0), and calculate with a
\* valid expression returns its result from then on.
C20_StorageFailureIsHarmless ==
    /\ [][(LoadHistoryCalled /\ storage = "denied")
            => /\ ~raised'
               /\ history' = (IF inlineInitialisation THEN emptyArray ELSE history)]_vars
    /\ [][(clearHistory /\ storage # "ok") => ~raised' /\ history' = emptyArray]_vars
    /\ [][((\E expression \in Expressions : calculate(expression)) /\ clock' # clock
              /\ storage # "ok")
            => /\ ~raised'
               /\ returned' = 2
               /\ isArray(history')
               /\ history'.items[1] = NewEntry]_vars

\* This step is a calculate whose expression does not evaluate, or not to
\* a finite result.
FailedCalculation ==
    \E expression \in Expressions :
        /\ calculate(expression)
        /\ LET result == evaluate(replacePercent(expression)) IN
           result.threw \/ ~result.finite

\* This step makes a Calculator, or restores its history while that is
\* still the empty array of the constructor.
StartUp ==
    \/ newCalculator
    \/ inlineInitialisation
    \/ showCalculator /\ history = emptyArray

\* C21: once a Calculator has started up, only a calculation that
\* evaluated to a finite result and clearHistory change the history or the
\* value under 'calcHistory'; a calculate whose expression does not
\* evaluate, or not to a finite result, raises and leaves both unchanged.
C21_OnlyAppendAndClearMutate ==
    /\ [][FailedCalculation
            => raised' /\ history' = history /\ calcHistory' = calcHistory]_vars
    /\ [][(history' # history \/ calcHistory' # calcHistory)
            => AddToHistoryCalled \/ clearHistory \/ StartUp]_vars

-----------------------------------------------------------------------------
(* Properties of the calculator's buttons and keys                         *)

\* What one call of calculate on text would leave, were it the only one.
OneCalculation(text) ==
    LET replaced == replacePercent(text) IN
    addToHistory(history, calcHistory, storage, calcShown, replaced,
                 evaluate(replaced).value, clock)

\* calculate on text returns a result.
CalculationSucceeds(text) ==
    LET result == evaluate(replacePercent(text)) IN
    ~result.threw /\ result.finite /\ ~OneCalculation(text).raised

\* C22: a click on '=' or a press of Enter or '=' whose calculation
\* succeeds appends exactly one entry to the history, however often the
\* calculator has been opened before.
C22_OneEntryPerEquals ==
    [][\A text \in Expressions :
         ((clickEquals(text) \/ handleKeyPress(text)) /\ CalculationSucceeds(text))
           => /\ history' = OneCalculation(text).history
              /\ clock' = clock + 1]_vars

-----------------------------------------------------------------------------
(* Properties of the variants of the class                                 *)

\* The cell the later class's opponent takes on board b, if any.
ChosenCells(b) == {getBestMove(b).index} \ {NoMove}

\* C23 as stated: on every board the three variants agree on whether
\* checkWinner reports a result and on the cell the opponent takes (the
\* later class and part_001 leaving the same board after the opponent's
\* write), so that the variants reach the same boards, turns and statuses.
C23_VariantsAgree ==
    /\ placeBestMove(part001_getBestMove(gameBoard)) = placeBestMove(getBestMove(gameBoard))
    /\ part001_getBestMove(gameBoard).index = getBestMove(gameBoard).index
    /\ earlier_checkWinner(gameBoard) <=> checkWinner(gameBoard) # "null"
    /\ earlier_emptyCells(gameBoard) = ChosenCells(gameBoard)

\* C23 amended: on every board the later class and the class of part_001
\* choose the same cell for the opponent and leave the same board after
\* the opponent's write.
C23_LaterAndPart001Agree ==
    /\ placeBestMove(part001_getBestMove(gameBoard)) = placeBestMove(getBestMove(gameBoard))
    /\ part001_getBestMove(gameBoard).index = getBestMove(gameBoard).index

C23_Witness ==
    /\ handler = "getBestMove"
    /\ part001_getBestMove(gameBoard).index = bestMoveIndex
    /\ part001_getBestMove(gameBoard).board # gameBoard
    /\ NoLine(gameBoard)

-----------------------------------------------------------------------------
(* Properties of the generated HTML                                        *)

Entities ==
    {<<"&", "a", "m", "p", ";">>, <<"&", "l", "t", ";">>, <<"&", "g", "t", ";">>,
     <<"&", "q", "u", "o", "t", ";">>, <<"&", "#", "0", "3", "9", ";">>}

\* No character of str is a raw <, >, ", ' or &: the first four do not
\* occur, and every & starts one of the five entities.
NoRawSpecial(str) ==
    \A i \in 1 .. Len(str) :
        /\ str[i] \notin Special \ {"&"}
        /\ str[i] = "&"
             => \E e \in Entities :
                  /\ i + Len(e) - 1 <= Len(str)
                  /\ SubSeq(str, i, i + Len(e) - 1) = e

\* C24: in every generated HTML text, no segment that came from user
\* input holds a raw <, >, ", ' or &.
C24_UserTextIsSanitized ==
    \A i \in 1 .. Len(markup) : markup[i].user => NoRawSpecial(markup[i].text)

-----------------------------------------------------------------------------
(* Properties of the notifications                                         *)

\* C25: at most one notification is on screen, the notifications were put
\* on screen in the order of their show calls, and isDisplaying is true
\* exactly while a notification is on screen.
C25_OneAtATimeInOrder ==
    /\ Cardinality(onScreen) <= 1
    /\ displayed = [i \in 1 .. Len(displayed) |-> i]
    /\ isDisplaying <=> onScreen # {}

-----------------------------------------------------------------------------
(* Properties of the turns                                                 *)

\* The number of cells of the board that hold mark m.
Count(m) == Cardinality({i \in DOMAIN gameBoard : gameBoard[i] = m})

\* C26: the number of X marks minus the number of O marks is 0 or 1, and
\* while the game is in progress it is X's turn exactly when the two
\* counts are equal.
C26_OneMarkPerTurn ==
    /\ Count("X") - Count("O") \in {0, 1}
    /\ gameActive => (currentPlayer = "X" <=> Count("X") = Count("O"))

-----------------------------------------------------------------------------
(* Properties of a match                                                   *)

\* C27 as stated: no game of a match ends in a win for X.
C27_OpponentNeverLoses == ~HasLine(gameBoard, "X")

\* C27 amended: X can win a match, but only by a fork.  A reply of the
\* opponent leaves X a completing cell only if X had two or more of them
\* when the opponent replied.
C27_XWinsOnlyByFork ==
    [][(opponentReply /\ outcome' = "placed" /\ NoLine(gameBoard')
          /\ CompletingCells(gameBoard', "X") # {})
       => Cardinality(CompletingCells(gameBoard, "X")) >= 2]_vars

C27_Witness ==
    /\ handler = "handleClick"
    /\ outcome = "placed"
    /\ HasLine(gameBoard, "X")
    /\ Count("O") = Count("X") - 1

-----------------------------------------------------------------------------
(* getBestMove as a query                                                  *)

\* C28: for every board, the board getBestMove leaves on return is the
\* board it found on entry, in the later class of script.js and in the
\* class of part_001.
C28_GetBestMoveIsPure ==
    /\ getBestMove(gameBoard).board = gameBoard
    /\ part001_getBestMove(gameBoard).board = gameBoard

-----------------------------------------------------------------------------
(* gameActive and the board                                                *)

\* C29: whenever handleClick, makeComputerMove or reiniciarJogo has
\* completed, gameActive is true exactly when no mark has a complete line
\* and the board has an empty cell.
C29_ActiveIffPlayable ==
    (handler \in {"handleClick", "makeComputerMove", "reiniciarJogo"} /\ outcome # "threw")
        => (gameActive <=> NoLine(gameBoard) /\ HasEmpty(gameBoard))

-----------------------------------------------------------------------------
(* Properties of the hangman game                                          *)

\* The letters of a sequence, as a set.
Range(seq) == {seq[i] : i \in 1 .. Len(seq)}

\* The wrong letters guessed so far: those in neither list are not guessed.
WrongGuessed == {l \in Range(letrasErradas) \cup Range(letrasCorretas) : ~includes(palavraSecreta, l)}

ErrosCountsWrongLetters ==
    /\ erros = Cardinality(WrongGuessed)
    /\ Cardinality(Range(letrasErradas)) = Len(letrasErradas)

Over == erros >= maxErros \/ wordRevealed(palavraSecreta, letrasCorretas)

\* C30: erros is the number of distinct wrong letters guessed and never
\* exceeds maxErros, and once erros has reached maxErros or the word is
\* fully guessed no guess changes the state of the game.
C30_ForcaCountsAndStops ==
    /\ [](ErrosCountsWrongLetters /\ erros <= maxErros)
    /\ [][\A letra \in Typed :
            (adivinharLetra(letra) /\ Over)
                => UNCHANGED <<palavraSecreta, letrasErradas, letrasCorretas, erros>>]_vars

-----------------------------------------------------------------------------
(* Properties of the to-do list                                            *)

\* The stored value deserializes to the list in memory.
StoredIsMemory == loadTasks(storedTasks) = tasks

\* The operations the list refuses leave the list and the entry alone.
RefusedChangesNothing ==
    /\ \A input \in TaskInputs :
          (addTask(input) /\ trim(input) = <<>>) => UNCHANGED <<tasks, storedTasks>>
    /\ \A index \in Indices :
          ((toggleTask(index) \/ deleteTask(index)) /\ ~validIndex(tasks, index))
              => UNCHANGED <<tasks, storedTasks>>

\* C31: after any sequence of addTask, toggleTask and deleteTask the value
\* stored under 'tasks' deserializes to exactly the task list in memory,
\* and addTask with empty or whitespace-only text and toggleTask and
\* deleteTask with an index outside the list change neither.
C31_StoredTasksEqualMemory ==
    /\ []StoredIsMemory
    /\ [][RefusedChangesNothing]_vars

====
